---- MODULE Spec2Model ----
(***************************************************************************)
(* NASA SSD/CNEOS API Explorer (src/app.py).                               *)
(*                                                                         *)
(* The class NasaSsdCneosApi (query construction, HTTP transport,         *)
(* table normalisation) and the two Gradio handlers fetch_fireballs and   *)
(* fetch_close_approaches, as a state machine: a call is started by one   *)
(* of the entry actions, the HTTP response and the plotting library's     *)
(* outcome are chosen by the environment, and Return hands the result     *)
(* back and makes the program ready for the next call.                    *)
(*                                                                         *)
(* Python values are records [t, s, n]: t is the type tag, s the          *)
(* characters of a str (a sequence of one-character strings), n the       *)
(* number of an int or float.                                             *)
(***************************************************************************)
EXTENDS Integers, Sequences, FiniteSets, TLC

VARIABLES
    pc,          \* "idle" | "requesting" | "plotting" | "done"
    op,          \* the entry point of the call in progress
    args,        \* the arguments the entry point was called with
    sent,        \* the parameter mapping given to requests.get
    requests,    \* number of HTTP GETs issued by the call
    response,    \* what the provider answered to the GET
    payload,     \* what _make_api_request returned / format_response was given
    df,          \* what format_response returned
    formatCalls, \* number of calls of format_response made by the call
    chart,       \* the arguments given to px.scatter_geo / px.scatter
    chartCalls,  \* number of calls of the plotting library made by the call
    plotErrors,  \* number of "Error creating ... plot" lines logged by the call
    result       \* what the entry point returned

vars ==
    <<pc, op, args, sent, requests, response, payload, df, formatCalls, chart, chartCalls,
      plotErrors, result>>

(***************************************************************************)
(* Bounds of the model.                                                    *)
(***************************************************************************)
MaxFields == 2      \* longest field list / row of a payload
MaxRows == 2        \* most rows in a payload's data

DefaultLimit == 10

(***************************************************************************)
(* Python values.                                                          *)
(***************************************************************************)
None == [t |-> "None", s |-> <<>>, n |-> 0]
StrV(chars) == [t |-> "str", s |-> chars, n |-> 0]
IntV(k) == [t |-> "int", s |-> <<>>, n |-> k]
FloatV(k) == [t |-> "float", s |-> <<>>, n |-> k]

EmptyStr == StrV(<<>>)

\* bool(v) of a scalar
Truthy(v) ==
    CASE v.t = "None" -> FALSE
      [] v.t = "str" -> v.s # <<>>
      [] OTHER -> v.n # 0

Whitespace == {" "}
Digits == ("0" :> 0) @@ ("1" :> 1) @@ ("2" :> 2) @@ ("3" :> 3) @@ ("5" :> 5)

RECURSIVE LStrip(_)
LStrip(chars) ==
    IF chars # <<>> /\ Head(chars) \in Whitespace THEN LStrip(Tail(chars)) ELSE chars

RECURSIVE RStrip(_)
RStrip(chars) ==
    IF chars # <<>> /\ chars[Len(chars)] \in Whitespace
    THEN RStrip(SubSeq(chars, 1, Len(chars) - 1))
    ELSE chars

\* str.strip()
Strip(chars) == RStrip(LStrip(chars))

RECURSIVE ParseNat(_)
ParseNat(chars) ==
    IF chars = <<>> THEN 0
    ELSE 10 * ParseNat(SubSeq(chars, 1, Len(chars) - 1)) + Digits[chars[Len(chars)]]

IsNumeral(chars) == chars # <<>> /\ \A i \in 1..Len(chars) : chars[i] \in DOMAIN Digits

(***************************************************************************)
(* Text: a sequence of pieces, each literal text or a formatted value.     *)
(***************************************************************************)
Lit(text) == [fmt |-> "lit", text |-> text, val |-> None]
EmbStr(v) == [fmt |-> "str", text |-> "", val |-> v]      \* {v} in an f-string
EmbRepr(v) == [fmt |-> "repr", text |-> "", val |-> v]    \* repr(v)

NoExc == [type |-> "", msg |-> <<>>]
Exc(type, msg) == [type |-> type, msg |-> msg]

Ok(v) == [raised |-> FALSE, val |-> v, exc |-> NoExc]
Raise(type, msg) == [raised |-> TRUE, val |-> None, exc |-> Exc(type, msg)]

\* float(v)
PyFloat(v) ==
    CASE v.t = "str" ->
            IF IsNumeral(Strip(v.s))
            THEN Ok(FloatV(ParseNat(Strip(v.s))))
            ELSE Raise("ValueError", <<Lit("could not convert string to float: "), EmbRepr(v)>>)
      [] v.t \in {"int", "float"} -> Ok(FloatV(v.n))
      [] OTHER ->
            Raise("TypeError", <<Lit("float() argument must be a string or a real number, not 'NoneType'")>>)

\* int(v)
PyInt(v) ==
    CASE v.t = "str" ->
            IF IsNumeral(Strip(v.s))
            THEN Ok(IntV(ParseNat(Strip(v.s))))
            ELSE Raise("ValueError", <<Lit("invalid literal for int() with base 10: "), EmbRepr(v)>>)
      [] v.t \in {"int", "float"} -> Ok(IntV(v.n))
      [] OTHER ->
            Raise("TypeError", <<Lit("int() argument must be a string, a bytes-like object or a real number, not 'NoneType'")>>)

\* `float(x) if x else None`
FloatOrNone(v) == IF Truthy(v) THEN PyFloat(v) ELSE Ok(None)

\* `x.strip() if x else None`
StripOrNone(v) ==
    IF ~Truthy(v) THEN Ok(None)
    ELSE IF v.t = "str" THEN Ok(StrV(Strip(v.s)))
    ELSE Raise("AttributeError", <<Lit("object has no attribute 'strip'")>>)

(***************************************************************************)
(* Query parameters: a mapping from parameter name to value.               *)
(***************************************************************************)
EmptyDict == [k \in {} |-> None]

\* variant: the comprehension without its `v != ""` test
CleanParamsKeepEmpty(params) ==
    [k \in {j \in DOMAIN params : params[j] # None} |-> params[k]]

\* the dict comprehension of _make_api_request
CleanParams(params) ==
    [k \in {j \in DOMAIN params : params[j] # None /\ params[j] # EmptyStr} |-> params[k]]

\* the params dict get_fireballs builds
FireballParams(limit, date_min, energy_min) ==
    ("limit" :> limit)
    @@ (IF Truthy(date_min) THEN ("date-min" :> date_min) ELSE EmptyDict)
    @@ (IF Truthy(energy_min) THEN ("energy-min" :> energy_min) ELSE EmptyDict)

\* the params dict get_close_approaches builds
CloseApproachParams(dist_max, date_min, date_max, h_min, h_max, v_inf_min, v_inf_max, limit) ==
    ("limit" :> limit) @@ ("dist-max" :> dist_max) @@ ("date-min" :> date_min)
    @@ ("date-max" :> date_max) @@ ("h-min" :> h_min) @@ ("h-max" :> h_max)
    @@ ("v-inf-min" :> v_inf_min) @@ ("v-inf-max" :> v_inf_max)
    @@ ("sort" :> StrV(<<"d", "a", "t", "e">>))

(***************************************************************************)
(* JSON payloads and the transport.                                        *)
(***************************************************************************)
\* A response body: a JSON object with the given keys, a JSON array, or null.
Dict(keys, fields, signature, data) ==
    [type |-> "dict", keys |-> keys, fields |-> fields, signature |-> signature, data |-> data]
List(items) ==
    [type |-> "list", keys |-> {}, fields |-> <<>>, signature |-> <<>>, data |-> items]
NonePayload ==
    [type |-> "None", keys |-> {}, fields |-> <<>>, signature |-> <<>>, data |-> <<>>]

\* bool(data) of a payload
TruthyPayload(data) ==
    CASE data.type = "dict" -> data.keys # {}
      [] data.type = "list" -> data.data # <<>>
      [] OTHER -> FALSE

\* What requests.get / raise_for_status / response.json() come to.
Outcome(status, body) == [status |-> status, body |-> body]

\* variant: without the check for the provider's "error" key
ApiReturnIgnoringError(outcome) ==
    IF outcome.status # "ok" THEN NonePayload ELSE outcome.body

\* the value _make_api_request returns
ApiReturn(outcome) ==
    IF outcome.status # "ok" THEN NonePayload
    ELSE IF outcome.body.type = "dict" /\ "error" \in outcome.body.keys THEN NonePayload
    ELSE outcome.body

(***************************************************************************)
(* Tables (pandas DataFrames): column labels in order, and rows of cells   *)
(* aligned with the columns.                                               *)
(***************************************************************************)
NaN == "NaN"

Min(a, b) == IF a <= b THEN a ELSE b

Elems(seq) == {seq[i] : i \in 1..Len(seq)}

\* the distinct elements of seq, in the order of their first occurrence
RECURSIVE Dedupe(_)
Dedupe(seq) ==
    IF seq = <<>> THEN <<>>
    ELSE LET front == Dedupe(SubSeq(seq, 1, Len(seq) - 1))
             last == seq[Len(seq)]
         IN IF last \in Elems(front) THEN front ELSE Append(front, last)

RECURSIVE Flatten(_)
Flatten(seqs) == IF seqs = <<>> THEN <<>> ELSE Head(seqs) \o Flatten(Tail(seqs))

\* dict(zip(fields, row)): keys in insertion order, the last value of a key wins
ZipDict(fields, row) ==
    LET n == Min(Len(fields), Len(row))
        keys == Dedupe(SubSeq(fields, 1, n))
    IN [keys |-> keys,
        val |-> [k \in Elems(keys) |->
                    row[CHOOSE i \in 1..n : fields[i] = k /\ \A j \in (i + 1)..n : fields[j] # k]]]

\* variant: the last dict is left out
DataFrameDropLast(dicts) ==
    LET cols == Dedupe(Flatten([i \in 1..Len(dicts) |-> dicts[i].keys]))
    IN [cols |-> cols,
        rows |-> [i \in 1..(Len(dicts) - 1) |->
                    [j \in 1..Len(cols) |->
                        IF cols[j] \in DOMAIN dicts[i].val THEN dicts[i].val[cols[j]] ELSE NaN]]]

\* pd.DataFrame(list of dicts): one row per dict, the columns are the keys in
\* the order they first appear, a key a dict lacks is NaN
DataFrame(dicts) ==
    LET cols == Dedupe(Flatten([i \in 1..Len(dicts) |-> dicts[i].keys]))
    IN [cols |-> cols,
        rows |-> [i \in 1..Len(dicts) |->
                    [j \in 1..Len(cols) |->
                        IF cols[j] \in DOMAIN dicts[i].val THEN dicts[i].val[cols[j]] ELSE NaN]]]

\* df.empty
Empty(table) == table.rows = <<>> \/ table.cols = <<>>

NoTable == [cols |-> <<>>, rows |-> <<>>]

\* variant: two display names that are source keys themselves
RenameMapChained(format_type) ==
    CASE format_type = "fireballs" ->
            ("date" :> "Date/Time") @@ ("energy" :> "Energy (kt)")
            @@ ("impact-e" :> "Impact Energy (10^10 J)") @@ ("lat" :> "lon")
            @@ ("lon" :> "Longitude") @@ ("alt" :> "Altitude (km)")
            @@ ("vel" :> "Velocity (km/s)")
      [] format_type = "close_approaches" ->
            ("des" :> "Object") @@ ("orbit_id" :> "Orbit ID") @@ ("cd" :> "Time (TDB)")
            @@ ("dist" :> "Nominal Distance (au)") @@ ("dist_min" :> "Minimum Distance (au)")
            @@ ("dist_max" :> "Maximum Distance (au)") @@ ("v_rel" :> "Velocity (km/s)")
            @@ ("h" :> "dist")
      [] OTHER -> [k \in {} |-> ""]

\* the rename_map of each format_type
RenameMap(format_type) ==
    CASE format_type = "fireballs" ->
            ("date" :> "Date/Time") @@ ("energy" :> "Energy (kt)")
            @@ ("impact-e" :> "Impact Energy (10^10 J)") @@ ("lat" :> "Latitude")
            @@ ("lon" :> "Longitude") @@ ("alt" :> "Altitude (km)")
            @@ ("vel" :> "Velocity (km/s)")
      [] format_type = "close_approaches" ->
            ("des" :> "Object") @@ ("orbit_id" :> "Orbit ID") @@ ("cd" :> "Time (TDB)")
            @@ ("dist" :> "Nominal Distance (au)") @@ ("dist_min" :> "Minimum Distance (au)")
            @@ ("dist_max" :> "Maximum Distance (au)") @@ ("v_rel" :> "Velocity (km/s)")
            @@ ("h" :> "H (mag)")
      [] OTHER -> [k \in {} |-> ""]

\* {k: v for k, v in rename_map.items() if k in df.columns}
ValidRename(rename_map, cols) ==
    [k \in (DOMAIN rename_map) \cap Elems(cols) |-> rename_map[k]]

\* the column labels of df.rename(columns=mapping)
RenameColumns(cols, mapping) ==
    [i \in 1..Len(cols) |-> IF cols[i] \in DOMAIN mapping THEN mapping[cols[i]] ELSE cols[i]]

\* the column labels format_response gives a table of this format_type
Renamed(cols, format_type) ==
    RenameColumns(cols, ValidRename(RenameMap(format_type), cols))

(***************************************************************************)
(* format_response.  Its value: [raised, exc, isNone, raw, cols, rows];     *)
(* raw is df.columns as logged before the rename.                          *)
(***************************************************************************)
DfNone ==
    [raised |-> FALSE, exc |-> NoExc, isNone |-> TRUE, raw |-> <<>>, cols |-> <<>>,
     rows |-> <<>>]
DfTable(raw, cols, rows) ==
    [raised |-> FALSE, exc |-> NoExc, isNone |-> FALSE, raw |-> raw, cols |-> cols,
     rows |-> rows]
DfRaised(exc) ==
    [raised |-> TRUE, exc |-> exc, isNone |-> TRUE, raw |-> <<>>, cols |-> <<>>,
     rows |-> <<>>]

\* variant: a default when both keys are missing
ResolveFieldsFromData(data) ==
    IF "fields" \in data.keys THEN [isNone |-> FALSE, names |-> data.fields]
    ELSE IF "signature" \in data.keys THEN [isNone |-> FALSE, names |-> data.signature]
    ELSE [isNone |-> FALSE, names |-> <<"data">>]

\* data.get('fields', data.get('signature')): [isNone, names]
ResolveFields(data) ==
    IF "fields" \in data.keys THEN [isNone |-> FALSE, names |-> data.fields]
    ELSE IF "signature" \in data.keys THEN [isNone |-> FALSE, names |-> data.signature]
    ELSE [isNone |-> TRUE, names |-> <<>>]

\* data.get('data'): [isNone, rows]
ResolveRows(data) ==
    IF "data" \in data.keys THEN [isNone |-> FALSE, rows |-> data.data]
    ELSE [isNone |-> TRUE, rows |-> <<>>]

\* the except branch of format_response
FormatExcept(exc) == DfNone

\* the try block of format_response: a table, None, or an exception
FormatTry(data, format_type) ==
    IF ~TruthyPayload(data) THEN DfNone
    ELSE IF data.type # "dict"
    THEN DfRaised(Exc("AttributeError", <<Lit("'list' object has no attribute 'get'")>>))
    ELSE LET fields == ResolveFields(data)
             rows == ResolveRows(data)
         IN IF fields.isNone \/ fields.names = <<>> \/ rows.isNone \/ rows.rows = <<>>
            THEN DfNone
            ELSE LET table == DataFrame([i \in 1..Len(rows.rows) |->
                                            ZipDict(fields.names, rows.rows[i])])
                 IN IF Empty(table) THEN DfNone
                    ELSE IF format_type \in {"fireballs", "close_approaches"}
                    THEN DfTable(table.cols, Renamed(table.cols, format_type), table.rows)
                    ELSE DfTable(table.cols, table.cols, table.rows)

FormatResponse(data, format_type) ==
    LET r == FormatTry(data, format_type)
    IN IF r.raised THEN FormatExcept(r.exc) ELSE r

(***************************************************************************)
(* Results of the Gradio handlers: the pair they return.                   *)
(***************************************************************************)
NoCol == "None"

NoFig ==
    [fn |-> "None", lat |-> NoCol, lon |-> NoCol, x |-> NoCol, y |-> NoCol,
     size |-> NoCol, color |-> NoCol, hover_name |-> NoCol]

NoResult == [kind |-> "none", msg |-> <<>>, table |-> NoTable, fig |-> NoFig]

\* return "<message>", None
Message(msg) == [kind |-> "message", msg |-> msg, table |-> NoTable, fig |-> NoFig]

\* return df, fig
TableResult(table, fig) ==
    [kind |-> "table", msg |-> <<>>, table |-> [cols |-> table.cols, rows |-> table.rows],
     fig |-> fig]

\* the value a get_* or format_response call hands back (held in payload / df)
ValueResult == [kind |-> "value", msg |-> <<>>, table |-> NoTable, fig |-> NoFig]

\* an exception leaving the handler
Propagated(exc) == [kind |-> "exception", msg |-> exc.msg, table |-> NoTable, fig |-> NoFig]

NoDataMsg ==
    <<Lit("No data returned from API. There might be an issue with the connection or parameters.")>>
NoFireballDataMsg == <<Lit("No fireball data available for the specified parameters.")>>
NoCloseApproachDataMsg == <<Lit("No close approach data available for the specified parameters.")>>

InvalidEnergyMsg(energy_min) ==
    <<Lit("Error: Invalid energy value '"), EmbStr(energy_min),
      Lit("'. Please enter a valid number.")>>

InvalidNumericMsg(exc) == <<Lit("Error: Invalid numeric input - ")>> \o exc.msg

\* variant: the exception is raised again
FetchExceptReraise(exc) == Propagated(exc)

\* the outer `except Exception as e` of both handlers

FetchExcept(exc) == Message(<<Lit("An error occurred: ")>> \o exc.msg)

(***************************************************************************)
(* Input processing of the handlers: either the handler returns at once    *)
(* (go = FALSE, with its result) or it calls get_* (go = TRUE, with the    *)
(* params dict get_* builds).                                              *)
(***************************************************************************)
Returns(res) == [go |-> FALSE, ret |-> res, params |-> EmptyDict]
Calls(params) == [go |-> TRUE, ret |-> NoResult, params |-> params]

FireballInputs(limit, date_min, energy_min) ==
    LET d == StripOrNone(date_min)
        e == FloatOrNone(energy_min)
        l == PyInt(limit)
    IN IF d.raised THEN Returns(FetchExcept(d.exc))
       ELSE IF e.raised
       THEN IF e.exc.type = "ValueError"
            THEN Returns(Message(InvalidEnergyMsg(energy_min)))
            ELSE Returns(FetchExcept(e.exc))
       ELSE IF l.raised THEN Returns(FetchExcept(l.exc))
       ELSE Calls(FireballParams(l.val, d.val, e.val))

\* the first of the conversions, in the order the code makes them, that raises
RECURSIVE FirstRaised(_)
FirstRaised(convs) ==
    IF convs = <<>> THEN Ok(None)
    ELSE IF Head(convs).raised THEN Head(convs)
    ELSE FirstRaised(Tail(convs))

CloseApproachInputs(limit, dist_max, date_min, date_max, h_min, h_max, v_inf_min, v_inf_max) ==
    LET dm == FloatOrNone(dist_max)
        hn == FloatOrNone(h_min)
        hx == FloatOrNone(h_max)
        vn == FloatOrNone(v_inf_min)
        vx == FloatOrNone(v_inf_max)
        f == FirstRaised(<<dm, hn, hx, vn, vx>>)
        dn == StripOrNone(date_min)
        dx == StripOrNone(date_max)
        l == PyInt(limit)
        g == FirstRaised(<<dn, dx, l>>)
    IN IF f.raised
       THEN IF f.exc.type = "ValueError"
            THEN Returns(Message(InvalidNumericMsg(f.exc)))
            ELSE Returns(FetchExcept(f.exc))
       ELSE IF g.raised THEN Returns(FetchExcept(g.exc))
       ELSE Calls(CloseApproachParams(dm.val, dn.val, dx.val, hn.val, hx.val,
                                      vn.val, vx.val, l.val))

(***************************************************************************)
(* Chart construction.                                                     *)
(***************************************************************************)
\* variant: `or` for `and`
WantsGeoChartEither(table) ==
    "Latitude" \in Elems(table.cols) \/ "Longitude" \in Elems(table.cols)

\* `'Latitude' in df.columns and 'Longitude' in df.columns`
WantsGeoChart(table) ==
    "Latitude" \in Elems(table.cols) /\ "Longitude" \in Elems(table.cols)

Present(col, table) == IF col \in Elems(table.cols) THEN col ELSE NoCol

\* the keyword arguments of px.scatter_geo
GeoChartArgs(table) ==
    [fn |-> "scatter_geo", lat |-> "Latitude", lon |-> "Longitude", x |-> NoCol, y |-> NoCol,
     size |-> Present("Energy (kt)", table), color |-> NoCol,
     hover_name |-> Present("Date/Time", table)]

\* variant: y falls back to the first column, and no colour column
CloseApproachChartArgsSwapped(table) ==
    IF "Velocity (km/s)" \notin Elems(table.cols) /\ Len(table.cols) < 2
    THEN [raised |-> TRUE, exc |-> Exc("IndexError", <<Lit("index 1 is out of bounds")>>),
          args |-> NoFig]
    ELSE [raised |-> FALSE, exc |-> NoExc,
          args |-> [fn |-> "scatter", lat |-> NoCol, lon |-> NoCol,
                    x |-> IF "Nominal Distance (au)" \in Elems(table.cols)
                          THEN "Nominal Distance (au)" ELSE table.cols[1],
                    y |-> IF "Velocity (km/s)" \in Elems(table.cols)
                          THEN "Velocity (km/s)" ELSE table.cols[1],
                    size |-> Present("H (mag)", table), color |-> NoCol,
                    hover_name |-> Present("Object", table)]]

\* the column selection of fetch_close_approaches and the keyword arguments
\* of px.scatter: [raised, exc, args]; df.columns[1] raises IndexError
CloseApproachChartArgs(table) ==
    IF "Velocity (km/s)" \notin Elems(table.cols) /\ Len(table.cols) < 2
    THEN [raised |-> TRUE, exc |-> Exc("IndexError", <<Lit("index 1 is out of bounds")>>),
          args |-> NoFig]
    ELSE [raised |-> FALSE, exc |-> NoExc,
          args |-> [fn |-> "scatter", lat |-> NoCol, lon |-> NoCol,
                    x |-> IF "Nominal Distance (au)" \in Elems(table.cols)
                          THEN "Nominal Distance (au)" ELSE table.cols[1],
                    y |-> IF "Velocity (km/s)" \in Elems(table.cols)
                          THEN "Velocity (km/s)" ELSE table.cols[2],
                    size |-> Present("H (mag)", table), color |-> Present("H (mag)", table),
                    hover_name |-> Present("Object", table)]]

\* variant: a message in place of the table
PlotExceptAsMessage(table) == Message(<<Lit("An error occurred: ")>>)

\* `except Exception as plot_err: return df, None`

PlotExcept(table) == TableResult(table, NoFig)

(***************************************************************************)
(* The handlers after get_* has returned `data`: what they do up to the    *)
(* call of the plotting library, or up to their return.                    *)
(***************************************************************************)
Finished(res, f, fcalls) ==
    [pc |-> "done", result |-> res, df |-> f, formatCalls |-> fcalls,
     chart |-> NoFig, chartCalls |-> 0, plotErrors |-> 0]
PlotFailed(res, f) ==
    [pc |-> "done", result |-> res, df |-> f, formatCalls |-> 1,
     chart |-> NoFig, chartCalls |-> 0, plotErrors |-> 1]
Plotting(f, chart_args) ==
    [pc |-> "plotting", result |-> NoResult, df |-> f, formatCalls |-> 1,
     chart |-> chart_args, chartCalls |-> 1, plotErrors |-> 0]

FireballsAfterData(data) ==
    IF ~TruthyPayload(data) THEN Finished(Message(NoDataMsg), DfNone, 0)
    ELSE LET f == FormatResponse(data, "fireballs")
         IN IF f.raised THEN Finished(FetchExcept(f.exc), f, 1)
            ELSE IF f.isNone \/ Empty(f) THEN Finished(Message(NoFireballDataMsg), f, 1)
            ELSE IF WantsGeoChart(f) THEN Plotting(f, GeoChartArgs(f))
            ELSE Finished(TableResult(f, NoFig), f, 1)

CloseApproachesAfterData(data) ==
    IF ~TruthyPayload(data) THEN Finished(Message(NoDataMsg), DfNone, 0)
    ELSE LET f == FormatResponse(data, "close_approaches")
         IN IF f.raised THEN Finished(FetchExcept(f.exc), f, 1)
            ELSE IF f.isNone \/ Empty(f) THEN Finished(Message(NoCloseApproachDataMsg), f, 1)
            ELSE LET c == CloseApproachChartArgs(f)
                 IN IF c.raised THEN PlotFailed(PlotExcept(f), f)
                    ELSE Plotting(f, c.args)

(***************************************************************************)
(* The environment: what users type, what callers pass, what the provider  *)
(* answers.                                                                *)
(***************************************************************************)
SeqsUpTo(S, n) == UNION {[1..k -> S] : k \in 0..n}

\* the values the handlers are called with: the forms' Sliders give numbers
\* and their Textboxes text; a direct caller may pass text as the limit
LimitInputs == {IntV(DefaultLimit), StrV(<<"a">>)}
DateInputs == {EmptyStr, StrV(<<" ">>), StrV(<<" ", "2", "0", "2", "3">>)}
EnergyInputs ==
    {None, EmptyStr, StrV(<<" ">>), StrV(<<"0">>), StrV(<<" ", "5">>), StrV(<<"a">>)}
NumericInputs == {EmptyStr, StrV(<<"5">>), StrV(<<"a">>)}

\* the arguments a caller of get_fireballs / get_close_approaches passes
ApiLimits == {None, IntV(DefaultLimit)}
ApiDates == {None, EmptyStr, StrV(<<"2", "0", "2", "3">>)}
ApiNumbers == {None, EmptyStr, FloatV(5)}

\* column names of the provider's tables, and one the rename tables lack
FireballFields == {"energy", "lat", "lon", "lat-dir"}
CloseApproachFields == {"dist", "v_rel", "h", "jd"}
\* column names a caller of format_response may pass: source keys, display
\* names and unknown names
AnyFields == {"lat", "Latitude", "h", "H (mag)", "jd"}

FormatTypes == {"fireballs", "close_approaches", "other"}

Cells == {"a"}
Signature == <<"source", "version">>

\* rows of exactly `width` cells
WellFormedData(width) == SeqsUpTo([1..width -> Cells], MaxRows)
\* rows of any length up to MaxFields
AnyData == SeqsUpTo(SeqsUpTo(Cells, MaxFields), MaxRows)

\* the bodies a 2xx response of the provider may carry; every row of a table
\* has as many entries as there are field names
Bodies(names) ==
    {NonePayload, List(<<>>), List(<<<<"a">>>>),
     Dict({}, <<>>, <<>>, <<>>),
     Dict({"error"}, <<>>, <<>>, <<>>),
     Dict({"signature", "count"}, <<>>, Signature, <<>>),
     Dict({"error", "fields", "data"}, <<"h">>, <<>>, <<<<"a">>>>)}
    \cup UNION {{Dict({"signature", "count", "fields", "data"}, f, Signature, d) :
                    d \in WellFormedData(Len(f))} : f \in SeqsUpTo(names, MaxFields)}

Failures == {Outcome(s, NonePayload) : s \in {"network", "http", "decode"}}

Outcomes(names) == Failures \cup {Outcome("ok", b) : b \in Bodies(names)}

\* the answers tried on a direct call of get_*
FewOutcomes ==
    Failures \cup {Outcome("ok", Dict({"error"}, <<>>, <<>>, <<>>)),
                   Outcome("ok", Dict({"fields", "data"}, <<"h">>, <<>>, <<<<"a">>>>))}

\* a key of a JSON object: absent, or present with one of the values
Optional(values) ==
    {[has |-> FALSE, v |-> <<>>]} \cup {[has |-> TRUE, v |-> x] : x \in values}

\* the payloads tried on a direct call of format_response; the provider
\* sends "signature" and "count" together
AnyPayloads ==
    {NonePayload, List(<<>>), List(<<<<"a">>>>)}
    \cup {Dict((IF f.has THEN {"fields"} ELSE {})
               \cup (IF s.has THEN {"signature", "count"} ELSE {})
               \cup (IF d.has THEN {"data"} ELSE {}),
               f.v, s.v, d.v) :
            f \in Optional(SeqsUpTo(AnyFields, MaxFields)),
            s \in Optional({Signature}),
            d \in Optional(AnyData)}

NoArgs ==
    [limit |-> None, date_min |-> None, date_max |-> None, energy_min |-> None,
     dist_max |-> None, h_min |-> None, h_max |-> None, v_inf_min |-> None,
     v_inf_max |-> None, format_type |-> ""]

(***************************************************************************)
(* The state machine.                                                      *)
(***************************************************************************)
Init ==
    /\ pc = "idle"
    /\ op = "none"
    /\ args = NoArgs
    /\ sent = EmptyDict
    /\ requests = 0
    /\ response = Outcome("none", NonePayload)
    /\ payload = NonePayload
    /\ df = DfNone
    /\ formatCalls = 0
    /\ chart = NoFig
    /\ chartCalls = 0
    /\ plotErrors = 0
    /\ result = NoResult

\* a handler or get_* up to requests.get, or up to its early return
Start(name, a, inputs) ==
    /\ op' = name
    /\ args' = a
    /\ IF inputs.go
       THEN /\ pc' = "requesting"
            /\ sent' = CleanParams(inputs.params)
            /\ requests' = 1
            /\ result' = NoResult
       ELSE /\ pc' = "done"
            /\ sent' = EmptyDict
            /\ requests' = 0
            /\ result' = inputs.ret
    /\ UNCHANGED <<response, payload, df, formatCalls, chart, chartCalls, plotErrors>>

\* fetch_fireballs(limit, date_min, energy_min), the Fireballs form's click
FetchFireballs ==
    /\ pc = "idle"
    /\ \E limit \in LimitInputs, date_min \in DateInputs, energy_min \in EnergyInputs :
        Start("fetch_fireballs",
              [NoArgs EXCEPT !.limit = limit, !.date_min = date_min,
                             !.energy_min = energy_min],
              FireballInputs(limit, date_min, energy_min))

\* fetch_close_approaches(...), the Close Approaches form's click
FetchCloseApproaches ==
    /\ pc = "idle"
    /\ \E limit \in LimitInputs, dist_max \in NumericInputs,
          date_min \in DateInputs, date_max \in DateInputs,
          h_min \in NumericInputs, h_max \in NumericInputs,
          v_inf_min \in NumericInputs, v_inf_max \in NumericInputs :
        Start("fetch_close_approaches",
              [NoArgs EXCEPT !.limit = limit, !.dist_max = dist_max,
                             !.date_min = date_min, !.date_max = date_max,
                             !.h_min = h_min, !.h_max = h_max,
                             !.v_inf_min = v_inf_min, !.v_inf_max = v_inf_max],
              CloseApproachInputs(limit, dist_max, date_min, date_max, h_min, h_max,
                                  v_inf_min, v_inf_max))

\* api.get_fireballs(limit, date_min, energy_min), called directly
GetFireballs ==
    /\ pc = "idle"
    /\ \E limit \in ApiLimits, date_min \in ApiDates, energy_min \in ApiNumbers :
        Start("get_fireballs",
              [NoArgs EXCEPT !.limit = limit, !.date_min = date_min,
                             !.energy_min = energy_min],
              Calls(FireballParams(limit, date_min, energy_min)))

\* api.get_close_approaches(...), called directly
GetCloseApproaches ==
    /\ pc = "idle"
    /\ \E limit \in ApiLimits, dist_max \in ApiNumbers,
          date_min \in ApiDates, date_max \in ApiDates,
          h_min \in ApiNumbers, h_max \in ApiNumbers,
          v_inf_min \in ApiNumbers, v_inf_max \in ApiNumbers :
        Start("get_close_approaches",
              [NoArgs EXCEPT !.limit = limit, !.dist_max = dist_max,
                             !.date_min = date_min, !.date_max = date_max,
                             !.h_min = h_min, !.h_max = h_max,
                             !.v_inf_min = v_inf_min, !.v_inf_max = v_inf_max],
              Calls(CloseApproachParams(dist_max, date_min, date_max, h_min, h_max,
                                        v_inf_min, v_inf_max, limit)))

\* api.format_response(data, format_type), called directly
CallFormatResponse ==
    /\ pc = "idle"
    /\ \E data \in AnyPayloads, format_type \in FormatTypes :
        /\ op' = "format_response"
        /\ args' = [NoArgs EXCEPT !.format_type = format_type]
        /\ payload' = data
        /\ df' = FormatResponse(data, format_type)
        /\ formatCalls' = 1
        /\ result' = IF df'.raised THEN Propagated(df'.exc) ELSE ValueResult
    /\ pc' = "done"
    /\ UNCHANGED <<sent, requests, response, chart, chartCalls, plotErrors>>

\* the rest of a handler once _make_api_request has returned
Continue(step) ==
    /\ pc' = step.pc
    /\ df' = step.df
    /\ formatCalls' = step.formatCalls
    /\ chart' = step.chart
    /\ chartCalls' = step.chartCalls
    /\ plotErrors' = step.plotErrors
    /\ result' = step.result

\* the provider answers the GET of fetch_fireballs
RespondFireballs ==
    /\ pc = "requesting"
    /\ op = "fetch_fireballs"
    /\ \E outcome \in Outcomes(FireballFields) :
        /\ response' = outcome
        /\ payload' = ApiReturn(outcome)
        /\ \E step \in {FireballsAfterData(ApiReturn(outcome))} : Continue(step)
    /\ UNCHANGED <<op, args, sent, requests>>

\* the provider answers the GET of fetch_close_approaches
RespondCloseApproaches ==
    /\ pc = "requesting"
    /\ op = "fetch_close_approaches"
    /\ \E outcome \in Outcomes(CloseApproachFields) :
        /\ response' = outcome
        /\ payload' = ApiReturn(outcome)
        /\ \E step \in {CloseApproachesAfterData(ApiReturn(outcome))} : Continue(step)
    /\ UNCHANGED <<op, args, sent, requests>>

\* the provider answers the GET of a direct get_* call
RespondGet ==
    /\ pc = "requesting"
    /\ op \in {"get_fireballs", "get_close_approaches"}
    /\ \E outcome \in FewOutcomes :
        /\ response' = outcome
        /\ payload' = ApiReturn(outcome)
        /\ pc' = "done"
        /\ result' = ValueResult
    /\ UNCHANGED <<op, args, sent, requests, df, formatCalls, chart, chartCalls, plotErrors>>

\* px.scatter_geo / px.scatter returns a figure or raises
Plot ==
    /\ pc = "plotting"
    /\ \E figure \in BOOLEAN :
        /\ result' = IF figure THEN TableResult(df, chart) ELSE PlotExcept(df)
        /\ plotErrors' = IF figure THEN 0 ELSE 1
    /\ pc' = "done"
    /\ UNCHANGED <<op, args, sent, requests, response, payload, df, formatCalls, chart,
                   chartCalls>>

\* the caller (Gradio's click binding) takes the result; ready for the next call
Return ==
    /\ pc = "done"
    /\ pc' = "idle"
    /\ op' = "none"
    /\ args' = NoArgs
    /\ sent' = EmptyDict
    /\ requests' = 0
    /\ response' = Outcome("none", NonePayload)
    /\ payload' = NonePayload
    /\ df' = DfNone
    /\ formatCalls' = 0
    /\ chart' = NoFig
    /\ chartCalls' = 0
    /\ plotErrors' = 0
    /\ result' = NoResult

Next ==
    \/ FetchCloseApproaches
    \/ FetchFireballs
    \/ GetFireballs
    \/ GetCloseApproaches
    \/ CallFormatResponse
    \/ RespondFireballs
    \/ RespondCloseApproaches
    \/ RespondGet
    \/ Plot
    \/ Return

Spec == Init /\ [][Next]_vars

(***************************************************************************)
(* Vocabulary of the properties.                                           *)
(***************************************************************************)
Handlers == {"fetch_fireballs", "fetch_close_approaches"}

\* the format_type of the format_response call of the current operation
FormatType ==
    CASE op = "fetch_fireballs" -> "fireballs"
      [] op = "fetch_close_approaches" -> "close_approaches"
      [] OTHER -> args.format_type

\* the field names of a payload: `fields`, else `signature`
FieldNames(p) == IF "fields" \in p.keys THEN p.fields ELSE p.signature

\* every row has exactly as many entries as there are field names
WellFormed(p) ==
    /\ p.type = "dict"
    /\ "data" \in p.keys
    /\ {"fields", "signature"} \cap p.keys # {}
    /\ \A i \in 1..Len(p.data) : Len(p.data[i]) = Len(FieldNames(p))

DisplayNames(format_type) ==
    {RenameMap(format_type)[k] : k \in DOMAIN RenameMap(format_type)}

\* format_response has been called and has returned
Formatted == formatCalls = 1 /\ pc \in {"plotting", "done"}

(* C1: the parameter mapping handed to the HTTP GET never has a key whose  *)
(* value is None or the empty string, whatever the inputs of get_fireballs *)
(* and get_close_approaches (directly or through the handlers).            *)
C1_NoAbsentOrEmptyParam ==
    \A k \in DOMAIN sent : sent[k] # None /\ sent[k] # EmptyStr

C1_Witness ==
    /\ pc = "requesting"
    /\ op = "get_close_approaches"
    /\ args.date_min = EmptyStr
    /\ args.h_min = None
    /\ args.dist_max = FloatV(5)
    /\ DOMAIN sent = {"limit", "dist-max", "sort"}

(* C2 as stated: for every well-formed payload and both dataset kinds,     *)
(* format_response returns a table with len(data) rows whose column names  *)
(* are display names of the kind or original field names.                  *)
C2_Original ==
    (Formatted /\ FormatType \in {"fireballs", "close_approaches"} /\ WellFormed(payload))
        => /\ ~df.isNone
           /\ Len(df.rows) = Len(payload.data)
           /\ Elems(df.cols) \subseteq
                DisplayNames(FormatType) \cup Elems(FieldNames(payload))

(* C2 amended: the same for every well-formed payload with at least one    *)
(* field name and at least one row; with no field name or no row the       *)
(* result is None.                                                         *)
C2_RowsAndColumns ==
    (Formatted /\ FormatType \in {"fireballs", "close_approaches"} /\ WellFormed(payload))
        => IF FieldNames(payload) # <<>> /\ payload.data # <<>>
           THEN /\ ~df.isNone
                /\ Len(df.rows) = Len(payload.data)
                /\ Elems(df.cols) \subseteq
                     DisplayNames(FormatType) \cup Elems(FieldNames(payload))
           ELSE df.isNone /\ ~df.raised

C2_Witness ==
    /\ Formatted
    /\ FormatType = "fireballs"
    /\ WellFormed(payload)
    /\ payload.fields = <<"lat", "jd">>
    /\ Len(payload.data) = 2
    /\ df.cols = <<"Latitude", "jd">>
    /\ Len(df.rows) = 2

(* C3: on a payload with neither a 'fields' nor a 'signature' key,         *)
(* format_response returns None and raises nothing, whatever the other     *)
(* keys and whatever the format_type.                                      *)
C3_NoFieldsGivesNone ==
    (Formatted /\ "fields" \notin payload.keys /\ "signature" \notin payload.keys)
        => df.isNone /\ ~df.raised /\ result.kind # "exception"

C3_Witness ==
    /\ Formatted
    /\ op = "format_response"
    /\ payload.type = "dict"
    /\ payload.keys = {"data"}
    /\ payload.data # <<>>
    /\ df.isNone

(* C4: when the transport fails (connection error, non-2xx status, body    *)
(* not JSON, or a JSON object with an 'error' key) the handlers return the *)
(* "No data returned from API..." message with None, and call neither      *)
(* format_response nor the plotting library.                               *)
TransportFailed ==
    \/ response.status \in {"network", "http", "decode"}
    \/ response.status = "ok" /\ response.body.type = "dict" /\ "error" \in response.body.keys

C4_TransportFailureIsNoData ==
    (op \in Handlers /\ pc \in {"plotting", "done"} /\ requests = 1 /\ TransportFailed)
        => /\ pc = "done"
           /\ payload = NonePayload
           /\ result = Message(NoDataMsg)
           /\ formatCalls = 0
           /\ chartCalls = 0

C4_Witness ==
    /\ op = "fetch_close_approaches"
    /\ pc = "done"
    /\ response.status = "ok"
    /\ response.body.keys = {"error", "fields", "data"}
    /\ result = Message(NoDataMsg)

(* C5 as stated: when a numeric filter field fails to parse, the handler   *)
(* returns a message that identifies both the offending field and the      *)
(* offending value, and no HTTP request is sent.                           *)
FloatFields(name) ==
    IF name = "fetch_fireballs" THEN {"energy_min"}
    ELSE {"dist_max", "h_min", "h_max", "v_inf_min", "v_inf_max"}

\* the numeric fields of the current call whose value fails to parse
Offending ==
    {f \in FloatFields(op) : Truthy(args[f]) /\ PyFloat(args[f]).raised}
    \cup {f \in {"limit"} : PyInt(args[f]).raised}

\* the fields a literal piece of a message names
FieldsNamedIn(text) ==
    IF text = "Error: Invalid energy value '" THEN {"energy_min"} ELSE {}

NamesField(msg, f) == \E i \in 1..Len(msg) : msg[i].fmt = "lit" /\ f \in FieldsNamedIn(msg[i].text)
ShowsValue(msg, v) == \E i \in 1..Len(msg) : msg[i].fmt # "lit" /\ msg[i].val = v

C5_Original ==
    (op \in Handlers /\ Offending # {})
        => /\ pc = "done"
           /\ requests = 0
           /\ result.kind = "message"
           /\ \E f \in Offending : NamesField(result.msg, f) /\ ShowsValue(result.msg, args[f])

(* C6: the handlers return either (message, None) or (table, figure or     *)
(* None); no exception leaves them, whatever the inputs and whatever the   *)
(* transport, format_response and the plotting library do; a handler that  *)
(* has not returned yet is waiting for the provider or the plotting        *)
(* library, whose answer lets it go on.                                    *)
C6_NoExceptionEscapes ==
    (op \in Handlers)
        => /\ result.kind # "exception"
           /\ pc # "done" => ENABLED (RespondFireballs \/ RespondCloseApproaches \/ Plot)
           /\ pc = "done" =>
                \/ result.kind = "message" /\ result.msg # <<>> /\ result.fig = NoFig
                \/ result.kind = "table" /\ result.table.rows # <<>>

C6_Witness ==
    /\ op = "fetch_close_approaches"
    /\ pc = "done"
    /\ args.limit = StrV(<<"a">>)
    /\ Offending = {"limit"}
    /\ result.kind = "message"
    /\ result.msg[1] = Lit("An error occurred: ")

(* C7: for a normalized Fireball table without the Longitude column, or    *)
(* without the Latitude column, fetch_fireballs calls no plotting function *)
(* and returns (table, None), the table being the normalized one with its  *)
(* rows, columns and column order.                                         *)
C7_NoChartWithoutCoordinates ==
    (/\ op = "fetch_fireballs"
     /\ Formatted
     /\ ~df.isNone
     /\ ("Longitude" \notin Elems(df.cols) \/ "Latitude" \notin Elems(df.cols)))
        => /\ pc = "done"
           /\ chartCalls = 0
           /\ result.kind = "table"
           /\ result.fig = NoFig
           /\ result.table.cols = df.cols
           /\ result.table.rows = df.rows

C7_Witness ==
    /\ op = "fetch_fireballs"
    /\ pc = "done"
    /\ df.cols = <<"Latitude", "Energy (kt)">>
    /\ Len(df.rows) = 2
    /\ result.kind = "table"
    /\ result.fig = NoFig

(* C8 as stated: for every non-empty normalized CloseApproach table the    *)
(* chart's X is 'Nominal Distance (au)' if present else the first column,  *)
(* its Y is 'Velocity (km/s)' if present else the second column, size and  *)
(* colour are 'H (mag)' exactly when present; a payload with 'h' but no    *)
(* 'dist' and no 'v_rel' yields a chart over the first two columns.        *)
CloseApproachTable == op = "fetch_close_approaches" /\ Formatted /\ ~df.isNone

ChartAsSpecified ==
    /\ chartCalls = 1
    /\ chart.fn = "scatter"
    /\ chart.x = IF "Nominal Distance (au)" \in Elems(df.cols)
                 THEN "Nominal Distance (au)" ELSE df.cols[1]
    /\ IF "Velocity (km/s)" \in Elems(df.cols)
       THEN chart.y = "Velocity (km/s)"
       ELSE Len(df.cols) >= 2 /\ chart.y = df.cols[2]
    /\ IF "H (mag)" \in Elems(df.cols)
       THEN chart.size = "H (mag)" /\ chart.color = "H (mag)"
       ELSE chart.size = NoCol /\ chart.color = NoCol
    /\ ("h" \in Elems(payload.fields) /\ {"dist", "v_rel"} \cap Elems(payload.fields) = {})
         => /\ Len(df.cols) >= 2
            /\ chart.x = df.cols[1]
            /\ chart.y = df.cols[2]
            /\ chart.size = "H (mag)"
            /\ chart.color = "H (mag)"
    /\ pc = "done" => result.kind = "table" /\ result.fig \in {chart, NoFig}

C8_Original == CloseApproachTable => ChartAsSpecified

(* C8 amended: the same for every non-empty normalized CloseApproach table *)
(* that has the 'Velocity (km/s)' column or at least two columns; for a    *)
(* one-column table without 'Velocity (km/s)' there is no second column,   *)
(* px.scatter is not called and the handler returns (table, None).         *)
C8_ChartColumns ==
    CloseApproachTable =>
        IF "Velocity (km/s)" \in Elems(df.cols) \/ Len(df.cols) >= 2
        THEN ChartAsSpecified
        ELSE /\ pc = "done"
             /\ chartCalls = 0
             /\ result.kind = "table"
             /\ result.table.cols = df.cols
             /\ result.fig = NoFig

C8_Witness ==
    /\ CloseApproachTable
    /\ pc = "done"
    /\ payload.fields = <<"h", "jd">>
    /\ chart.x = "H (mag)"
    /\ chart.y = "jd"
    /\ chart.size = "H (mag)"
    /\ chart.color = "H (mag)"
    /\ result.fig = chart

(* C9: for both dataset kinds, renaming the columns of a table that        *)
(* format_response has renamed changes no column name, and a column whose  *)
(* name is not a source key of the kind's rename table keeps its name and  *)
(* its position.                                                           *)
C9_RenameIdempotent ==
    (Formatted /\ ~df.isNone /\ FormatType \in {"fireballs", "close_approaches"})
        => /\ Renamed(df.cols, FormatType) = df.cols
           /\ Len(df.cols) = Len(df.raw)
           /\ \A i \in 1..Len(df.raw) :
                df.raw[i] \notin DOMAIN RenameMap(FormatType) => df.cols[i] = df.raw[i]

C9_Witness ==
    /\ Formatted
    /\ op = "format_response"
    /\ FormatType = "close_approaches"
    /\ df.raw = <<"H (mag)", "h">>
    /\ df.cols = <<"H (mag)", "H (mag)">>

(* C10: when format_response has produced a non-empty table and the chart  *)
(* construction then fails (scatter_geo or scatter raises, or the column   *)
(* selection of fetch_close_approaches raises on a table with fewer than   *)
(* two columns), the handler returns that table with None, not a message.  *)
ColumnSelectionFails ==
    /\ op = "fetch_close_approaches"
    /\ "Velocity (km/s)" \notin Elems(df.cols)
    /\ Len(df.cols) < 2

C10_ChartFailureKeepsTable ==
    (/\ op \in Handlers
     /\ pc = "done"
     /\ formatCalls = 1
     /\ ~df.isNone
     /\ (plotErrors > 0 \/ ColumnSelectionFails))
        => /\ result.kind = "table"
           /\ result.table = [cols |-> df.cols, rows |-> df.rows]
           /\ result.fig = NoFig

C10_Witness ==
    /\ op = "fetch_fireballs"
    /\ pc = "done"
    /\ chartCalls = 1
    /\ plotErrors = 1
    /\ chart.fn = "scatter_geo"
    /\ result.kind = "table"
    /\ result.fig = NoFig
====
